---- MODULE Spec2Model ----
(***************************************************************************)
(* Model of backend/api/deck.go: the deck-string decoder (decompress,      *)
(* decompressBytes, readDelimitedBytes, deck.parse, decompressDeck) and    *)
(* the run-once wrapper deck.Bytes built on sync.Once.                     *)
(*                                                                         *)
(* A Go string or []byte is a sequence of one-character strings.  Go       *)
(* offsets are 0-based; sequences here are 1-based, and every operator     *)
(* that returns a Go offset (Index) returns the 0-based one.               *)
(***************************************************************************)
EXTENDS Integers, Sequences, FiniteSets, TLC

VARIABLES
    input,      \* the encoded document the deck was created with
    buf,        \* deck.buf
    done,       \* deck.parseOnce: its done flag
    mu,         \* deck.parseOnce: the holder of its mutex (0: free)
    pc,         \* each caller's position inside deck.Bytes
    err,        \* each caller's named result err of its current Bytes call
    waited,     \* whether the current call arrived while a decode was running
    work,       \* deck.parse's locals that outlive line 141: cards left to render, counts
    calls,      \* number of Bytes calls each caller has started
    parses,     \* number of times deck.parse has been entered
    returns,    \* what Bytes calls have returned so far
    tpc,        \* position of the sequential test run (TestDecompress, TestDecompressDeckUnstable)
    got,        \* the results the sequential test run has collected
    rd          \* the readDelimitedBytes call of the sequential test run and its outcome

vars == <<input, buf, done, mu, pc, err, waited, work, calls, parses, returns, tpc, got, rd>>

(***************************************************************************)
(* Bytes and strings                                                       *)
(***************************************************************************)

\* the byte 0x60 (a grave accent cannot be written inside a string literal)
Backtick == "U+0060"

\* the printable ASCII characters in code-point order (32..126)
Ascii == <<" ","!","\"","#","$","%","&","'","(",")","*","+",",","-",".","/",
           "0","1","2","3","4","5","6","7","8","9",":",";","<","=",">","?","@",
           "A","B","C","D","E","F","G","H","I","J","K","L","M","N","O","P","Q",
           "R","S","T","U","V","W","X","Y","Z","[","\\","]","^","_",Backtick,
           "a","b","c","d","e","f","g","h","i","j","k","l","m","n","o","p","q",
           "r","s","t","u","v","w","x","y","z","{","|","}","~">>

\* the code point of a printable character
Code(c) == 31 + (CHOOSE i \in 1..Len(Ascii) : Ascii[i] = c)

Digits == {"0","1","2","3","4","5","6","7","8","9"}

RECURSIVE StrLessFrom(_, _, _)
StrLessFrom(a, b, i) ==
    IF i > Len(a) THEN i <= Len(b)
    ELSE IF i > Len(b) THEN FALSE
    ELSE IF a[i] = b[i] THEN StrLessFrom(a, b, i + 1)
    ELSE Code(a[i]) < Code(b[i])

\* Go's < on strings: bytewise lexicographic
StrLess(a, b) == StrLessFrom(a, b, 1)

Drop(s, n) == SubSeq(s, n + 1, Len(s))

HasPrefix(s, p) == Len(p) <= Len(s) /\ SubSeq(s, 1, Len(p)) = p

\* the least 0-based offset, not below i, at which sep occurs in s, or -1
IndexFrom(s, sep, i) ==
    LET at == {k \in i..(Len(s) - Len(sep)) : SubSeq(s, k + 1, k + Len(sep)) = sep}
    IN  IF at = {} THEN -1 ELSE CHOOSE k \in at : \A j \in at : k <= j

\* bytes.Index / strings.Index: 0-based offset of the first sep in s, or -1
Index(s, sep) == IndexFrom(s, sep, 0)

\* bytes.Split / strings.Split with a separator that is one byte repeated, as
\* every separator of this program is ("|", "||", ",", ";", ";;", ";;;", "\n").
\* Split cuts at the non-overlapping occurrences of sep, leftmost first: in a
\* run of the separator's byte these start at every Len(sep)-th byte of the
\* run, as long as a whole separator fits.
Split(s, sep) ==
    LET n == Len(sep)
        runStart(k) == CHOOSE j \in 0..k :
                           /\ \A i \in (j + 1)..k : s[i] = sep[1]
                           /\ j = 0 \/ s[j] # sep[1]
        cuts == {k \in 0..(Len(s) - n) :
                    SubSeq(s, k + 1, k + n) = sep /\ (k - runStart(k)) % n = 0}
        cut(i) == IF i = 0 THEN 0 - n
                  ELSE IF i = Cardinality(cuts) + 1 THEN Len(s)
                  ELSE CHOOSE k \in cuts : Cardinality({j \in cuts : j < k}) = i - 1
    IN  [i \in 1..(Cardinality(cuts) + 1) |-> SubSeq(s, cut(i - 1) + n + 1, cut(i))]

RECURSIVE ReplaceAll(_, _, _)
\* (*regexp.Regexp).ReplaceAll for a pattern that matches the literal pat:
\* every non-overlapping match, leftmost first, becomes word.  The replacement
\* is taken literally, which is what regexp does for a word without '$'.
ReplaceAll(text, pat, word) ==
    LET i == Index(text, pat)
    IN  IF i = -1 THEN text
        ELSE SubSeq(text, 1, i) \o word \o ReplaceAll(Drop(text, i + Len(pat)), pat, word)

RECURSIVE Itoa(_)
\* strconv.AppendInt(_, n, 10) / fmt.Sprint(n) for n >= 0
Itoa(n) ==
    IF n < 10 THEN <<Ascii[17 + n]>>
    ELSE Itoa(n \div 10) \o <<Ascii[17 + (n % 10)]>>

RECURSIVE DigitsValue(_, _)
DigitsValue(s, acc) ==
    IF s = <<>> THEN acc
    ELSE DigitsValue(Tail(s), 10 * acc + (Code(Head(s)) - Code("0")))

\* strconv.ParseInt(s, 10, 64): an optional sign, then one or more decimal
\* digits.  (The fields of the modelled documents are far below 2^63.)
ParseInt(s) ==
    LET signed == s # <<>> /\ Head(s) \in {"+", "-"}
        body   == IF signed THEN Tail(s) ELSE s
    IN  IF body = <<>> \/ \E k \in 1..Len(body) : body[k] \notin Digits
        THEN [ok |-> FALSE, val |-> 0]
        ELSE [ok |-> TRUE,
              val |-> IF signed /\ Head(s) = "-" THEN 0 - DigitsValue(body, 0)
                      ELSE DigitsValue(body, 0)]

(***************************************************************************)
(* Dictionary decompressor                                                 *)
(***************************************************************************)

WILDCARDS == <<"0","1","2","3","4","5","6","7","8","9",
               "a","b","c","d","e","f","g","h","i","j","k","l","m","n","o","p","q","r","s","t","v","w","x","y","z",
               "A","B","C","D","E","F","G","H","I","J","K","L","M","N","O","P","Q","R","S","T","V","W","X","Y","Z",
               "_",Backtick,"[","]","/","^","%","?","@",">","<","=","-","+","*",":",";",",",".","(",")","#","$","!","'","{","}","~">>

\* compressionWildcardRegex[i] (i 0-based) matches the two bytes "&" WILDCARDS[i]
compressionWildcardRegex(i) == <<"&", WILDCARDS[i + 1]>>

NoErr == "nil"
ErrInvalidDeck == "invalid deck"
ErrSyntax == "strconv.ParseInt: invalid syntax"
ErrOutOfBounds == "card index out of bounds"
Panic == "panic: index out of range"

Failed(e) == [err |-> e, text |-> <<>>]

RECURSIVE passesUp(_, _, _, _)
passesUp(compressionDict, text, lo, hi) ==
    IF hi < lo THEN text
    ELSE IF hi = lo
    THEN ReplaceAll(text, compressionWildcardRegex(lo), compressionDict[lo + 1])
    ELSE LET mid  == (lo + hi) \div 2
             half == passesUp(compressionDict, text, lo, mid)
         IN  IF half = text THEN passesUp(compressionDict, text, mid + 1, hi)
             ELSE passesUp(compressionDict, half, mid + 1, hi)

\* a loop that walks the dictionary from index 0 up
substituteAscending(compressionDict, text, i) ==
    IF i >= Len(WILDCARDS) THEN Failed(Panic)
    ELSE [err |-> NoErr, text |-> passesUp(compressionDict, text, 0, i)]

RECURSIVE passes(_, _, _, _)
\* the text after the passes "text = compressionWildcardRegex[i].ReplaceAll(
\* text, compressionDict[i])" for i = hi, hi - 1, ..., lo, in that order: the
\* passes of the upper half of the range, then those of the lower half.  (Both
\* branches of the comparison go on with the text the upper half left; the
\* comparison has that text computed before the lower half starts.)
passes(compressionDict, text, hi, lo) ==
    IF hi < lo THEN text
    ELSE IF hi = lo
    THEN ReplaceAll(text, compressionWildcardRegex(hi), compressionDict[hi + 1])
    ELSE LET mid  == (lo + hi) \div 2
             half == passes(compressionDict, text, hi, mid + 1)
         IN  IF half = text THEN passes(compressionDict, text, mid, lo)
             ELSE passes(compressionDict, half, mid, lo)

\* the loop "for i := len(compressionDict) - 1; i >= 0; i--" entered with
\* index i.  i only decreases, so compressionWildcardRegex[i] is out of range
\* in the first pass or in none.
substitute(compressionDict, text, i) ==
    IF i >= Len(WILDCARDS) THEN Failed(Panic)
    ELSE [err |-> NoErr, text |-> passes(compressionDict, text, i, 0)]

decompress(s) ==
    LET parts == Split(s, <<"|", "|">>)
    IN  IF Len(parts) < 2 THEN Failed(ErrInvalidDeck)
        ELSE LET compressionDict == Split(parts[1], <<"|">>)
             IN  substitute(compressionDict, parts[2], Len(compressionDict) - 1)

decompressBytes(s) ==
    LET parts == Split(s, <<"|", "|">>)
    IN  IF Len(parts) < 2 THEN Failed(ErrInvalidDeck)
        ELSE LET compressionDict == Split(parts[1], <<"|">>)
             IN  substitute(compressionDict, parts[2], Len(compressionDict) - 1)

(***************************************************************************)
(* Record splitter                                                         *)
(***************************************************************************)

\* parseCardBytes / parseCard: the first field of a table entry
parseCardBytes(cardSection) ==
    LET sectionEnd == Index(cardSection, <<";">>)
    IN  IF sectionEnd = -1 THEN cardSection ELSE SubSeq(cardSection, 1, sectionEnd)

\* the callback of deck.go 89-98: st.cards collects the table entries
appendCard(st, val) == [st EXCEPT !.cards = Append(@, val)]

\* the callback of deck.go 107-135 for the table entries cards: st.unique is
\* uniqueCardList and st.count is cardIdxCountMap
countCard(cards, st, val) ==
    LET cardIdxVal == ParseInt(val)
    IN  IF ~cardIdxVal.ok THEN [st EXCEPT !.err = ErrSyntax]
        ELSE IF cardIdxVal.val < 0 \/ cardIdxVal.val >= Len(cards)
        THEN [st EXCEPT !.err = ErrOutOfBounds]
        ELSE LET card == parseCardBytes(cards[cardIdxVal.val + 1])
                 ok   == card \in DOMAIN st.count
                 ct   == IF ok THEN st.count[card] ELSE 0
             IN  IF Len(card) = 0 THEN st
                 ELSE [st EXCEPT !.unique = IF ok THEN @ ELSE Append(@, card),
                                 !.count  = (card :> ct + 1) @@ @]

ErrCallback == "callback error"

\* the callbacks of TestReadDelemitedBytes*: st.vals collects the values the
\* callback is invoked with; invocation number failAt (if any) returns an error
recordCB(failAt, st, val) ==
    [st EXCEPT !.vals = Append(@, val),
               !.err  = IF Len(st.vals) + 1 = failAt THEN ErrCallback ELSE NoErr]

\* a delimCB value: the closure's kind and what it captures; st is the state
\* the closure updates and st.err the error it returns
delimCB(cb, st, val) ==
    CASE cb.kind = "cards" -> appendCard(st, val)
      [] cb.kind = "indices" -> countCard(cb.cards, st, val)
      [] cb.kind = "record" -> recordCB(cb.failAt, st, val)

RECURSIVE readLoop(_, _, _, _, _)
\* the loop of readDelimitedBytes
readLoop(s, delim, cb, st, currIndex) ==
    IF currIndex >= Len(s) THEN st
    ELSE LET found     == currIndex + Index(Drop(s, currIndex), delim)
             nextIndex == IF found < currIndex THEN Len(s) ELSE found
             st2       == delimCB(cb, st, SubSeq(s, currIndex + 1, nextIndex))
         IN  IF st2.err # NoErr THEN st2
             ELSE readLoop(s, delim, cb, st2, nextIndex + Len(delim))

readDelimitedBytes(s, delim, cb, st) ==
    IF Len(s) = 0 \/ (Len(s) = 1 /\ s[1] = "-") THEN st
    ELSE readLoop(s, delim, cb, st, 0)

\* parseCard: the first field of a table entry
parseCard(cardSection) ==
    LET sectionEnd == Index(cardSection, <<";">>)
    IN  IF sectionEnd = -1 THEN cardSection ELSE SubSeq(cardSection, 1, sectionEnd)

RECURSIVE parseIntsFrom(_, _, _)
parseIntsFrom(s, currIndex, result) ==
    IF currIndex >= Len(s) THEN [err |-> NoErr, ints |-> result]
    ELSE LET found     == currIndex + Index(Drop(s, currIndex), <<",">>)
             nextIndex == IF found < currIndex THEN Len(s) ELSE found
             resultVal == ParseInt(SubSeq(s, currIndex + 1, nextIndex))
         IN  IF ~resultVal.ok THEN [err |-> ErrSyntax, ints |-> <<>>]
             ELSE parseIntsFrom(s, nextIndex + 1, Append(result, resultVal.val))

parseCommaDelimitedIntegerArray(s) ==
    IF s = <<"-">> THEN [err |-> NoErr, ints |-> <<>>]
    ELSE parseIntsFrom(s, 0, <<>>)

splitDoubleSemicolonArray(s) ==
    IF s = <<"-">> THEN <<>> ELSE Split(s, <<";", ";">>)

parseCards(cardSections) ==
    [k \in 1..Len(cardSections) |-> parseCard(cardSections[k])]

(***************************************************************************)
(* Aggregator and formatter                                                *)
(***************************************************************************)

AscendersBane == <<"A","s","c","e","n","d","e","r","'","s"," ","B","a","n","e">>

\* a comparison without the special case
cardLessPlain(i, j) == StrLess(i, j)

\* the comparison handed to slices.SortFunc (deck.go 144-153, deck_test.go 453-461)
cardLess(i, j) ==
    IF i = AscendersBane THEN FALSE
    ELSE IF j = AscendersBane THEN TRUE
    ELSE StrLess(i, j)

RECURSIVE insertDown(_, _)
\* the inner loop of insertionSortLessFunc: data's last element moves down
\* while it is less than its predecessor
insertDown(data, j) ==
    IF j > 1 /\ cardLess(data[j], data[j - 1])
    THEN insertDown([data EXCEPT ![j] = data[j - 1], ![j - 1] = data[j]], j - 1)
    ELSE data

RECURSIVE sortFrom(_, _)
sortFrom(data, i) ==
    IF i > Len(data) THEN data
    ELSE sortFrom(SubSeq(insertDown(SubSeq(data, 1, i), i), 1, i) \o Drop(data, i), i + 1)

\* slices.SortFunc(data, cardLess): pdqsort sorts a slice of at most 12
\* elements by insertion sort
SortFunc(data) == sortFrom(data, 2)

\* the " x<count>\n" suffix of deck.go 165-169
countSuffix(cardCount) ==
    IF cardCount > 0 THEN <<" ", "x">> \o Itoa(cardCount) \o <<"\n">> ELSE <<>>

\* one iteration of the loop of deck.go 155-170 on d.buf
appendLine(b, card, cardCount) == b \o card \o countSuffix(cardCount)

RECURSIVE renderFrom(_, _, _)
renderFrom(b, list, count) ==
    IF list = <<>> THEN b
    ELSE renderFrom(appendLine(b, Head(list), count[Head(list)]), Tail(list), count)

NoWork == [unique |-> <<>>, count |-> <<>>]

\* the table text deck.parse and decompressDeck read: parts[1] of the split
tableText(parts) == parts[2]

\* deck.parse up to line 139 on a deck whose buf is b: the error it returns
\* (or NoErr) and the locals the rendering uses
parsePrepare(b) ==
    LET d == decompressBytes(b)
    IN  IF d.err # NoErr THEN [err |-> d.err, unique |-> <<>>, count |-> <<>>]
        ELSE LET parts == Split(d.text, <<";", ";", ";">>)
             IN  IF Len(parts) < 2 THEN [err |-> Panic, unique |-> <<>>, count |-> <<>>]
                 ELSE LET cards == readDelimitedBytes(tableText(parts), <<";", ";">>, [kind |-> "cards"],
                                                      [err |-> NoErr, cards |-> <<>>]).cards
                      IN  readDelimitedBytes(parts[1], <<",">>, [kind |-> "indices", cards |-> cards],
                                             [err |-> NoErr, unique |-> <<>>, count |-> <<>>])

\* deck.parse as one call: the error returned and d.buf afterwards
parse(b) ==
    LET p == parsePrepare(b)
    IN  IF p.err # NoErr THEN [err |-> p.err, buf |-> b]
        ELSE [err |-> NoErr, buf |-> renderFrom(<<>>, SortFunc(p.unique), p.count)]

RECURSIVE countIndices(_, _, _)
\* the loop of deck.go 311-318
countIndices(d, cards, deckDict) ==
    IF d = <<>> THEN [err |-> NoErr, deckDict |-> deckDict]
    ELSE LET idx == Head(d)
         IN  IF idx < 0 \/ idx >= Len(cards) THEN [err |-> ErrOutOfBounds, deckDict |-> <<>>]
             ELSE LET name == cards[idx + 1]
                      ct   == IF name \in DOMAIN deckDict THEN deckDict[name] ELSE 0
                  IN  countIndices(Tail(d), cards, (name :> ct + 1) @@ deckDict)

decompressDeck(deck) ==
    LET dd == decompress(deck)
    IN  IF dd.err # NoErr THEN [err |-> dd.err, deckDict |-> <<>>]
        ELSE LET parts == Split(dd.text, <<";", ";", ";">>)
                 d     == parseCommaDelimitedIntegerArray(parts[1])
             IN  IF d.err # NoErr THEN [err |-> d.err, deckDict |-> <<>>]
                 ELSE IF Len(parts) < 2 THEN [err |-> Panic, deckDict |-> <<>>]
                 ELSE countIndices(d.ints, parseCards(splitDoubleSemicolonArray(tableText(parts))), <<>>)

RECURSIVE SetToSeq(_)
\* the keys of a map in some iteration order
SetToSeq(S) ==
    IF S = {} THEN <<>>
    ELSE LET x == CHOOSE y \in S : TRUE IN <<x>> \o SetToSeq(S \ {x})

RECURSIVE stableLines(_, _)
stableLines(keys, countMap) ==
    IF keys = <<>> THEN <<>>
    ELSE Head(keys) \o <<" ", "x">> \o Itoa(countMap[Head(keys)]) \o <<"\n">>
         \o stableLines(Tail(keys), countMap)

\* getStableOutput of deck_test.go: the old handler's rendering of a name->count map
getStableOutput(countMap) == stableLines(SortFunc(SetToSeq(DOMAIN countMap)), countMap)

(***************************************************************************)
(* Encoded documents                                                       *)
(***************************************************************************)

MaxIdx == 2         \* index-list fields of a generated document
MaxCards == 2       \* table entries of a generated document
MaxOrderIdx == 3    \* index-list fields of a document over OrderTable
MaxWords == 3       \* dictionary words of a generated dictionary
MaxBody == 1        \* tokens of the body that follows a generated dictionary
MaxExtraWords == 1  \* dictionary words beyond the number of symbols of WILDCARDS

SeqsUpTo(S, n) == UNION {[1..k -> S] : k \in 0..n}

RECURSIVE Join(_, _)
Join(list, sep) ==
    IF list = <<>> THEN <<>>
    ELSE IF Len(list) = 1 THEN list[1]
    ELSE list[1] \o sep \o Join(Tail(list), sep)

\* the inputs of TestDecompress, TestDecompressDeck and TestDecompressDeckUnstable
SimpleDeck == <<"c","a","r","d","|","j","u","n","k","|","|","0",",","1",",","1",",","0",",","2",",","0",";",";",";","&","0","1",";","&","1",";","x",";",";","&","0","2",";","&","1",";","y",";",";","&","0","3",";","&","1",";","z">>
OutOfBoundsDeck == <<"c","a","r","d","|","j","u","n","k","|","|","3",";",";",";","&","0","1",";","&","1",";","x",";",";","&","0","2",";","&","1",";","y",";",";","&","0","3",";","&","1",";","z">>
NegativeDeck == <<"c","a","r","d","|","j","u","n","k","|","|","-","1",";",";",";","&","0","1",";","&","1",";","x",";",";","&","0","2",";","&","1",";","y",";",";","&","0","3",";","&","1",";","z">>
InvalidIndexDeck == <<"c","a","r","d","|","j","u","n","k","|","|","}",";",";",";","&","0","1",";","&","1",";","x",";",";","&","0","2",";","&","1",";","y",";",";","&","0","3",";","&","1",";","z">>
NoCompression == <<"|","|","I"," ","l","o","v","e">>
OrderDeck == <<"|","|","0",",","1",",","2",",","1",";",";",";","Z","e","b","r","a",";",";","A","s","c","e","n","d","e","r","'","s"," ","B","a","n","e",";",";","A","p","p","l","e">>

TestDocuments ==
    {<<>>, <<"|">>, <<"|", "|">>, NoCompression, SimpleDeck, OutOfBoundsDeck,
     NegativeDeck, InvalidIndexDeck, OrderDeck}

\* index lists: "-" or up to MaxIdx fields joined by ","
IndexFields == {<<"0">>, <<"1">>, <<"-", "1">>, <<"}">>}
IndexTexts == {<<"-">>} \cup {Join(f, <<",">>) : f \in SeqsUpTo(IndexFields, MaxIdx)}

\* tables: "-" or up to MaxCards entries joined by ";;"; an entry may be
\* empty, have an empty name, or end in an empty field
TableEntries == {<<"A", "p", ";", "x">>, <<"Z">>, <<"B", ";", "c", ";">>, <<";", "e">>, <<>>}
TableTexts == {<<"-">>} \cup {Join(e, <<";", ";">>) : e \in SeqsUpTo(TableEntries, MaxCards)}

DeckDocuments ==
    {<<"|", "|">> \o i : i \in IndexTexts}
    \cup {<<"|", "|">> \o i \o <<";", ";", ";">> \o t : i \in IndexTexts, t \in TableTexts}

\* decks over one table whose names sort before and after "Ascender's Bane"
OrderTable == <<"Z","e","b","r","a",";",";","A","s","c","e","n","d","e","r","'","s"," ","B","a","n","e",";","c",";",";","A","p","p","l","e",";",";","A","s","c","e","n","d","e","r">>
OrderFields == {<<"0">>, <<"1">>, <<"2">>, <<"3">>}
OrderDocuments ==
    {<<"|", "|">> \o Join(f, <<",">>) \o <<";", ";", ";">> \o OrderTable :
        f \in SeqsUpTo(OrderFields, MaxOrderIdx)}

\* dictionaries whose words hold back-references, forward references and a
\* bare "&", in front of bodies of placeholders
Words == {<<"a">>, <<"&", "0">>, <<"&", "1", "b">>, <<"&", "2">>, <<"&">>}
BodyTokens == {<<"&", "0">>, <<"&", "1">>, <<"&", "2">>, <<"0">>}
DictDocuments ==
    {Join(w, <<"|">>) \o <<"|", "|">> \o Join(b, <<>>) :
        w \in SeqsUpTo(Words, MaxWords), b \in SeqsUpTo(BodyTokens, MaxBody)}

\* dictionaries of one-letter words with as many words as WILDCARDS has
\* symbols, one fewer, and up to MaxExtraWords more
LongDictBodies == {<<>>, <<"&", "0">>, <<"0", ";", ";", ";", "&", "0">>}
LongDict(n) == [k \in 1..(2 * n - 1) |-> IF k % 2 = 1 THEN "a" ELSE "|"]
LongDictDocuments ==
    {LongDict(n) \o <<"|", "|">> \o b :
        n \in (Len(WILDCARDS) - 1)..(Len(WILDCARDS) + MaxExtraWords), b \in LongDictBodies}

Documents ==
    TestDocuments \cup DeckDocuments \cup OrderDocuments \cup DictDocuments
        \cup LongDictDocuments

\* the decks the concurrent callers share
Decks == {<<>>, <<"|", "|", "0">>, SimpleDeck, OutOfBoundsDeck, OrderDeck}

(***************************************************************************)
(* deck.Bytes under concurrent callers                                     *)
(***************************************************************************)

NumCallers == 2     \* goroutines calling Bytes on the one deck
MaxCalls == 2       \* Bytes calls of each goroutine

Callers == 1..NumCallers

Unset == [err |-> "unset"]
NoResults == [decompress |-> Unset, decompressBytes |-> Unset, deck |-> Unset, bytes |-> Unset]

\* &deck{buf: []byte(document)}
NewDeck(document) ==
    /\ input = document
    /\ buf = document
    /\ done = FALSE
    /\ mu = 0
    /\ work = NoWork
    /\ parses = 0
    /\ pc = [p \in Callers |-> "idle"]
    /\ err = [p \in Callers |-> NoErr]
    /\ waited = [p \in Callers |-> FALSE]
    /\ calls = [p \in Callers |-> 0]
    /\ returns = {}
    /\ got = NoResults

NoRead == [s |-> <<>>, delim |-> <<>>, failAt |-> 0, vals |-> <<>>, err |-> "unset"]

Init == \E document \in Decks : NewDeck(document) /\ tpc = "off" /\ rd = NoRead

\* a Once that lets a caller through as soon as some caller holds the mutex
onceDoneOrBusy == done \/ mu # 0

\* sync.Once.Do's first test: the done flag is set
onceDone == done

\* a Once that does not look at the done flag again under the mutex
onceMustRunAlways == TRUE

\* sync.Once.doSlow's test under the mutex: f has not run yet
onceMustRun == ~done

\* a goroutine enters Bytes: its named results start as nil
Call(p) ==
    /\ pc[p] = "idle"
    /\ calls[p] < MaxCalls
    /\ pc' = [pc EXCEPT ![p] = "do"]
    /\ err' = [err EXCEPT ![p] = NoErr]
    /\ waited' = [waited EXCEPT ![p] = FALSE]
    /\ calls' = [calls EXCEPT ![p] = @ + 1]
    /\ UNCHANGED <<input, buf, done, mu, work, parses, returns, tpc, got, rd>>

\* parseOnce.Do: return at once when done, else take the slow path
DoFast(p) ==
    /\ pc[p] = "do"
    /\ pc' = [pc EXCEPT ![p] = IF onceDone THEN "return" ELSE "lock"]
    /\ waited' = [waited EXCEPT ![p] = parses > 0 /\ ~done]
    /\ UNCHANGED <<input, buf, done, mu, err, work, calls, parses, returns, tpc, got, rd>>

\* doSlow: o.m.Lock()
DoLock(p) ==
    /\ pc[p] = "lock"
    /\ mu = 0
    /\ mu' = p
    /\ pc' = [pc EXCEPT ![p] = "locked"]
    /\ UNCHANGED <<input, buf, done, err, waited, work, calls, parses, returns, tpc, got, rd>>

\* doSlow: run f if it has not run, else unlock and leave
DoSlow(p) ==
    /\ pc[p] = "locked"
    /\ IF onceMustRun
       THEN pc' = [pc EXCEPT ![p] = "parse"] /\ mu' = mu
       ELSE pc' = [pc EXCEPT ![p] = "return"] /\ mu' = 0
    /\ UNCHANGED <<input, buf, done, err, waited, work, calls, parses, returns, tpc, got, rd>>

\* deck.parse lines 78-153: decode d.buf; on success empty d.buf (line 141)
\* and sort the names, on failure leave with the error (or the panic)
Parse(p) ==
    /\ pc[p] = "parse"
    /\ parses' = parses + 1
    /\ LET pr == parsePrepare(buf)
       IN  IF pr.err # NoErr
           THEN /\ err' = [err EXCEPT ![p] = pr.err]
                /\ pc' = [pc EXCEPT ![p] = "store"]
                /\ UNCHANGED <<buf, work>>
           ELSE /\ buf' = <<>>
                /\ work' = [unique |-> SortFunc(pr.unique), count |-> pr.count]
                /\ pc' = [pc EXCEPT ![p] = "render"]
                /\ err' = err
    /\ UNCHANGED <<input, done, mu, waited, calls, returns, tpc, got, rd>>

\* deck.parse lines 155-176: one card's line is appended to d.buf, or the
\* loop ends and parse returns nil
Render(p) ==
    /\ pc[p] = "render"
    /\ IF work.unique = <<>>
       THEN /\ pc' = [pc EXCEPT ![p] = "store"]
            /\ work' = NoWork
            /\ buf' = buf
       ELSE /\ buf' = appendLine(buf, Head(work.unique), work.count[Head(work.unique)])
            /\ work' = [work EXCEPT !.unique = Tail(@)]
            /\ pc' = pc
    /\ UNCHANGED <<input, done, mu, err, waited, calls, parses, returns, tpc, got, rd>>

\* doSlow's deferred o.done.Store(1), which also runs when f panicked
Store(p) ==
    /\ pc[p] = "store"
    /\ done' = TRUE
    /\ pc' = [pc EXCEPT ![p] = "unlock"]
    /\ UNCHANGED <<input, buf, mu, err, waited, work, calls, parses, returns, tpc, got, rd>>

\* doSlow's deferred o.m.Unlock(); a panic of f then leaves Bytes without a result
Unlock(p) ==
    /\ pc[p] = "unlock"
    /\ mu' = 0
    /\ pc' = [pc EXCEPT ![p] = IF err[p] = Panic THEN "idle" ELSE "return"]
    /\ UNCHANGED <<input, buf, done, err, waited, work, calls, parses, returns, tpc, got, rd>>

\* return d.buf, err
Return(p) ==
    /\ pc[p] = "return"
    /\ returns' = returns \cup {[res |-> buf, err |-> err[p], waited |-> waited[p]]}
    /\ pc' = [pc EXCEPT ![p] = "idle"]
    /\ UNCHANGED <<input, buf, done, mu, err, waited, work, calls, parses, tpc, got, rd>>

Next ==
    \E p \in Callers :
        \/ Call(p)
        \/ DoFast(p)
        \/ DoLock(p)
        \/ DoSlow(p)
        \/ Parse(p)
        \/ Render(p)
        \/ Store(p)
        \/ Unlock(p)
        \/ Return(p)

Spec == Init /\ [][Next]_vars

(***************************************************************************)
(* The decoders applied to one document by one goroutine, in the order of  *)
(* TestDecompress and TestDecompressDeckUnstable                           *)
(***************************************************************************)

InitTest == \E document \in Documents : NewDeck(document) /\ tpc = "start" /\ rd = NoRead

\* decompress(tc.input) and decompressBytes([]byte(tc.input))
RunDecompress ==
    /\ tpc = "start"
    /\ got' = [got EXCEPT !.decompress = decompress(input),
                          !.decompressBytes = decompressBytes(input)]
    /\ tpc' = "decompressed"
    /\ UNCHANGED <<input, buf, done, mu, pc, err, waited, work, calls, parses, returns, rd>>

\* decompressDeck(tc.input)
RunDecompressDeck ==
    /\ tpc = "decompressed"
    /\ got' = [got EXCEPT !.deck = decompressDeck(input)]
    /\ tpc' = "legacy"
    /\ UNCHANGED <<input, buf, done, mu, pc, err, waited, work, calls, parses, returns, rd>>

\* d.Bytes() on the fresh deck, run to its end by the one goroutine
RunBytes ==
    /\ tpc = "legacy"
    /\ LET r == parse(buf)
       IN  /\ buf' = r.buf
           /\ got' = [got EXCEPT !.bytes = [res |-> r.buf, err |-> r.err]]
    /\ done' = TRUE
    /\ parses' = parses + 1
    /\ tpc' = "called"
    /\ UNCHANGED <<input, mu, pc, err, waited, work, calls, returns, rd>>

NextTest == RunDecompress \/ RunDecompressDeck \/ RunBytes

SpecTest == InitTest /\ [][NextTest]_vars

(***************************************************************************)
(* readDelimitedBytes applied to one text with a recording callback, as in *)
(* TestReadDelemitedBytesIntArrs and ...SplitStringMultiCharDelim          *)
(***************************************************************************)

MaxReadLen == 4     \* bytes of a text handed to readDelimitedBytes
MaxFailAt == 2      \* the callback invocation that may return an error (0: none)

ReadBytes == {"a", ";", ",", "-"}
ReadDelims == {<<",">>, <<";", ";">>}

InitRead ==
    /\ NewDeck(<<>>)
    /\ tpc = "read"
    /\ \E s \in SeqsUpTo(ReadBytes, MaxReadLen), delim \in ReadDelims, failAt \in 0..MaxFailAt :
           rd = [s |-> s, delim |-> delim, failAt |-> failAt, vals |-> <<>>, err |-> "unset"]

\* err := readDelimitedBytes([]byte(tc.input), []byte(tc.delim), callback)
RunRead ==
    /\ tpc = "read"
    /\ LET r == readDelimitedBytes(rd.s, rd.delim, [kind |-> "record", failAt |-> rd.failAt],
                                   [err |-> NoErr, vals |-> <<>>])
       IN  rd' = [rd EXCEPT !.vals = r.vals, !.err = r.err]
    /\ tpc' = "readDone"
    /\ UNCHANGED <<input, buf, done, mu, pc, err, waited, work, calls, parses, returns, got>>

NextRead == RunRead

SpecRead == InitRead /\ [][NextRead]_vars

(***************************************************************************)
(* Properties of deck.Bytes under concurrent callers (Spec)                *)
(***************************************************************************)

\* C1: once a Bytes call on a deck has returned an error, every call on that
\* deck returns that same error, and none returns a nil error.
C1_FailureIsPermanent ==
    \A r1 \in returns, r2 \in returns : r1.err # NoErr => r2.err = r1.err

\* C2: deck.parse is entered at most once for a deck, by one caller; once a
\* call has come back or the Once is done, it has been entered exactly once
\* and no caller is inside it or about to enter it again.
C2_ParseRunsOnce ==
    /\ parses <= 1
    /\ Cardinality({p \in Callers : pc[p] \in {"parse", "render", "store"}}) <= 1
    /\ (done \/ returns # {}) => parses = 1
    /\ done => \A p \in Callers : pc[p] \notin {"parse", "render"}

\* every caller has made all its calls, the calls overlapped, and parse ran once
C2_Witness ==
    /\ parses = 1
    /\ \A p \in Callers : calls[p] = MaxCalls /\ pc[p] = "idle"
    /\ \E r \in returns : r.waited

\* C3: every Bytes call on a deck returns the same bytes, the buffer as
\* deck.parse leaves it (for a deck that decodes, the complete report), and a
\* caller reaches its return only after the decode has finished.
C3_ReturnsFinalBytes ==
    /\ \A r \in returns : r.res = parse(input).buf
    /\ \A p \in Callers : pc[p] = "return" => done /\ work = NoWork

\* a call that arrived during the decode has returned the complete, non-empty report
C3_Witness ==
    \E r \in returns :
        /\ r.waited
        /\ parse(input).err = NoErr
        /\ r.res = parse(input).buf
        /\ Len(r.res) > 0

(***************************************************************************)
(* Properties of the decoders on one document (SpecTest)                   *)
(***************************************************************************)

Sep3 == <<";", ";", ";">>

\* the decompressed document of the input, when decompress succeeds
Doc == got.decompress.text
Decompressed == tpc # "start" /\ got.decompress.err = NoErr
Called == tpc = "called"
FailedCall(r) == r.err # NoErr

\* the document cut at the first ";;;"
IndexPart == SubSeq(Doc, 1, Index(Doc, Sep3))
TablePart == Drop(Doc, Index(Doc, Sep3) + 3)

\* the fields of an index list and the entries of a table as the format defines them
FieldsOf(t) == IF t = <<>> \/ t = <<"-">> THEN <<>> ELSE Split(t, <<",">>)
EntriesOf(t) == IF t = <<>> \/ t = <<"-">> THEN <<>> ELSE Split(t, <<";", ";">>)
NameOf(entry) == IF Index(entry, <<";">>) = -1 THEN entry ELSE SubSeq(entry, 1, Index(entry, <<";">>))

\* C4: Bytes fails exactly when decompressDeck fails, and when both succeed
\* Bytes returns getStableOutput of decompressDeck's map.
C4_DecodePathsAgree ==
    Called =>
        /\ FailedCall(got.bytes) <=> FailedCall(got.deck)
        /\ (~FailedCall(got.bytes) /\ ~FailedCall(got.deck))
              => got.bytes.res = getStableOutput(got.deck.deckDict)

\* C5: a document with "||" whose decompressed body has no ";;;" makes both
\* decoders return an error value: neither succeeds and neither panics.
C5_MissingSeparatorIsAnError ==
    (Called /\ Decompressed /\ Index(Doc, Sep3) = -1) =>
        /\ got.bytes.err \notin {NoErr, Panic}
        /\ got.deck.err \notin {NoErr, Panic}

\* the index list holds integers only, and one of them is negative or not
\* below the number of table entries
HasBadIndex ==
    LET f == FieldsOf(IndexPart)
        n == Len(EntriesOf(TablePart))
    IN  /\ \A k \in 1..Len(f) : ParseInt(f[k]).ok
        /\ \E k \in 1..Len(f) : ParseInt(f[k]).val < 0 \/ ParseInt(f[k]).val >= n

\* C6: an index that is negative or not below the number of table entries
\* (none for an empty or "-" table) makes both decoders fail with the
\* out-of-bounds error, and the deck's buffer keeps the encoded input.
C6_BadIndexIsOutOfBounds ==
    (Called /\ Decompressed /\ Index(Doc, Sep3) # -1 /\ HasBadIndex) =>
        /\ got.bytes.err = ErrOutOfBounds
        /\ got.deck.err = ErrOutOfBounds
        /\ got.bytes.res = input
        /\ buf = input

\* the table entries deck.parse resolves the indices against
ParsedCards ==
    readDelimitedBytes(tableText(Split(Doc, Sep3)), <<";", ";">>, [kind |-> "cards"],
                       [err |-> NoErr, cards |-> <<>>]).cards

\* the names the index list resolves to, in index order
ResolvedNames ==
    LET f == FieldsOf(Split(Doc, Sep3)[1])
    IN  [k \in 1..Len(f) |-> NameOf(ParsedCards[ParseInt(f[k]).val + 1])]

\* C7: after a successful decode the multiset deck.parse built holds, for
\* each name some index resolves to, the number of indices that resolve to
\* it, and nothing else; so every count is at least 1.
C7_MultisetOfResolvedNames ==
    (Called /\ ~FailedCall(got.bytes)) =>
        LET count == parsePrepare(input).count
            names == ResolvedNames
        IN  /\ DOMAIN count = {names[k] : k \in 1..Len(names)}
            /\ \A n \in DOMAIN count :
                   count[n] = Cardinality({k \in 1..Len(names) : names[k] = n})

\* the names of the report's lines, in order: a line is "<name> x<count>"
ReportLines(report) ==
    LET parts == Split(report, <<"\n">>)
    IN  SubSeq(parts, 1, Len(parts) - 1)
RECURSIVE LastIndex(_, _, _)
LastIndex(s, sep, i) ==
    IF i < 0 THEN -1
    ELSE IF HasPrefix(Drop(s, i), sep) THEN i
    ELSE LastIndex(s, sep, i - 1)
LineName(line) == SubSeq(line, 1, LastIndex(line, <<" ", "x">>, Len(line)))
ReportNames(report) ==
    LET lines == ReportLines(report)
    IN  [k \in 1..Len(lines) |-> LineName(lines[k])]

IsWildcard(c) == \E k \in 1..Len(WILDCARDS) : WILDCARDS[k] = c
WildcardIndex(c) == (CHOOSE k \in 1..Len(WILDCARDS) : WILDCARDS[k] = c) - 1
IsPlaceholderAt(text, k) == text[k] = "&" /\ k < Len(text) /\ IsWildcard(text[k + 1])

RECURSIVE Resolved(_, _, _)
\* text with every placeholder of a dictionary index below limit replaced by
\* that word, itself resolved below its own index; all else is kept
Resolved(dict, text, limit) ==
    IF text = <<>> THEN <<>>
    ELSE IF IsPlaceholderAt(text, 1)
    THEN LET j == WildcardIndex(text[2])
         IN  (IF j < limit THEN Resolved(dict, dict[j + 1], j) ELSE SubSeq(text, 1, 2))
             \o Resolved(dict, Drop(text, 2), limit)
    ELSE <<Head(text)>> \o Resolved(dict, Tail(text), limit)

\* every "&" of the text starts a placeholder
OnlyPlaceholders(text) == \A k \in 1..Len(text) : text[k] = "&" => IsPlaceholderAt(text, k)

InputDict == Split(Split(input, <<"|", "|">>)[1], <<"|">>)
InputBody == Split(input, <<"|", "|">>)[2]

C10_TableFollowsFirstSeparator ==
    (Called /\ Decompressed /\ Index(Doc, Sep3) # -1) =>
        tableText(Split(Doc, Sep3)) = TablePart

(***************************************************************************)
(* Properties of readDelimitedBytes (SpecRead)                             *)
(***************************************************************************)

\* the fields of the text: none for an empty text or "-", else the text
\* split on the delimiter
ReadFields == IF rd.s = <<>> \/ rd.s = <<"-">> THEN <<>> ELSE Split(rd.s, rd.delim)

\* C11: the callback is invoked with the fields of the text in order, never
\* for an empty text or "-"; an invocation that returns an error is the last
\* one, and readDelimitedBytes returns that error.
C11_CallbackSeesSplit ==
    tpc = "readDone" =>
        IF rd.failAt \in 1..Len(ReadFields)
        THEN rd.vals = SubSeq(ReadFields, 1, rd.failAt) /\ rd.err = ErrCallback
        ELSE rd.vals = ReadFields /\ rd.err = NoErr

\* C12: on a document that contains "||", decompress and decompressBytes
\* index compressionWildcardRegex only below len(WILDCARDS): however many
\* words the dictionary has, no index is out of range, and each call returns
\* a text or an error value.
C12_MatcherIndexInRange ==
    (tpc # "start" /\ Index(input, <<"|", "|">>) # -1) =>
        /\ got.decompress.err \in {NoErr, ErrInvalidDeck}
        /\ got.decompressBytes.err \in {NoErr, ErrInvalidDeck}

====
